---- MODULE Spec2Model ----
(***************************************************************************)
(* Model of image_to_text.py: the timestamp resolver                       *)
(* (get_image_creation_time), the enumeration and ordering of candidates   *)
(* (get_image_files) and the failure-isolated processing loop              *)
(* (process_images) run from the script's __main__ block.                  *)
(***************************************************************************)
EXTENDS Integers, Sequences, FiniteSets, TLC

VARIABLES
    fs,           \* input directory: entries in the order iterdir() yields them
    dirOK,        \* whether the input directory can be enumerated
    outDirOK,     \* whether the output directory/file can be created
    outExists,    \* whether the output file exists
    out,          \* content of the output file: sequence of written pieces
    pc,           \* position of the script
    image_files,  \* get_image_files: the candidate list (indices into fs)
    keys,         \* get_image_files: sort keys computed so far, by list position
    idx,          \* process_images: position of the for loop in image_files
    cur,          \* process_images: locals of the current iteration
    log,          \* lines printed on the console by the current run
    run,          \* which invocation of the script this is: "first" or "second"
    pre,          \* content of the output file when the current run started
    hist,         \* per finished run: what it appended and how each entry fared
    trace,        \* current run: per attempted entry, its index and outcome
    keyed,        \* current run: per candidate, the (timestamp, source) used as sort key
    envSteps,     \* number of changes made to the input directory by others
    faults,       \* number of I/O errors the current run has hit on the output file
    res           \* result of the last call of get_image_creation_time

vars == <<fs, dirOK, outDirOK, outExists, out, pc, image_files, keys, idx, cur,
          log, run, pre, hist, trace, keyed, envSteps, faults, res>>

-----------------------------------------------------------------------------
(* Bounds of the model                                                     *)

MaxFiles == 2
MaxMTime == 1
MaxEnvSteps == 1
MaxFaults == 1
MaxTags == 2

-----------------------------------------------------------------------------
(* Strings are modelled as sequences of tokens: numbers and separators.    *)

Num(n) == [t |-> "num", v |-> n]
Sep(c) == [t |-> "sep", v |-> c]

IsNum(tok, lo, hi) == tok.t = "num" /\ tok.v >= lo /\ tok.v <= hi
IsSep(tok, c) == tok.t = "sep" /\ tok.v = c

\* datetime values: <<year, month, day, hour, minute, second>>
DaysIn(y, m) ==
    IF m \in {4, 6, 9, 11} THEN 30
    ELSE IF m = 2 THEN (IF y % 4 = 0 /\ (y % 100 # 0 \/ y % 400 = 0) THEN 29 ELSE 28)
    ELSE 31

\* datetime.__lt__ / __le__ on naive datetimes: lexicographic on the fields
RECURSIVE LexLess(_, _, _)
LexLess(a, b, k) ==
    IF k > Len(a) THEN FALSE
    ELSE IF a[k] < b[k] THEN TRUE
    ELSE IF a[k] > b[k] THEN FALSE
    ELSE LexLess(a, b, k + 1)

DtLess(a, b) == LexLess(a, b, 1)
DtLeq(a, b) == ~DtLess(b, a)

\* datetime.strptime(date_str, '%Y:%m:%d %H:%M:%S') on a str: the fields and
\* separators of the format, each field in its range, the day in its month
StrptimeStr(v) ==
    IF /\ Len(v.toks) = 11
       /\ IsNum(v.toks[1], 1, 9999) /\ IsSep(v.toks[2], ":")
       /\ IsNum(v.toks[3], 1, 12)   /\ IsSep(v.toks[4], ":")
       /\ IsNum(v.toks[5], 1, 31)   /\ IsSep(v.toks[6], " ")
       /\ IsNum(v.toks[7], 0, 23)   /\ IsSep(v.toks[8], ":")
       /\ IsNum(v.toks[9], 0, 59)   /\ IsSep(v.toks[10], ":")
       /\ IsNum(v.toks[11], 0, 59)
       /\ v.toks[5].v <= DaysIn(v.toks[1].v, v.toks[3].v)
    THEN [kind |-> "ok",
          value |-> <<v.toks[1].v, v.toks[3].v, v.toks[5].v,
                      v.toks[7].v, v.toks[9].v, v.toks[11].v>>]
    ELSE [kind |-> "ValueError"]

\* strptime raises TypeError on a value that is no str, ValueError on a str
\* that does not match
Strptime(v) ==
    IF ~v.isStr THEN [kind |-> "TypeError"]
    ELSE StrptimeStr(v)

\* timestamp.strftime('%Y-%m-%d %H:%M:%S')
Strftime(d) ==
    <<Num(d[1]), Sep("-"), Num(d[2]), Sep("-"), Num(d[3]), Sep(" "),
      Num(d[4]), Sep(":"), Num(d[5]), Sep(":"), Num(d[6])>>

\* datetime.fromtimestamp(st_mtime), for whole seconds within the first hour
\* of the epoch
FromTimestamp(t) == <<1970, 1, 1, 0, (t \div 60) % 60, t % 60>>

\* PIL.ExifTags.TAGS.get(tag_id, tag_id) on the tag ids of the model
TAGS(tag_id) ==
    IF tag_id = 36867 THEN "DateTimeOriginal"
    ELSE IF tag_id = 306 THEN "DateTime"
    ELSE IF tag_id = 271 THEN "Make"
    ELSE "unknown"

-----------------------------------------------------------------------------
(* get_image_creation_time                                                 *)

\* Image.open(path) succeeds on an existing regular file holding a decodable image
CanOpen(e) == e.kind = "file" /\ e.img.decodable

\* path.stat() succeeds on anything that exists (files and directories)
CanStat(e) == e.kind \in {"file", "dir"}

\* lines 22-30: the scan over the metadata mapping, in the order it yields
\* its keys.  Result: the parsed instant, "none" when the loop ends without a
\* return, "raise" when an exception other than ValueError leaves the loop.
RECURSIVE ScanExif(_, _)
ScanExif(exif, k) ==
    IF k > Len(exif) THEN [kind |-> "none"]
    ELSE IF TAGS(exif[k].tag) \in {"DateTimeOriginal", "DateTime"}
         THEN LET p == Strptime(exif[k].val) IN
              IF p.kind = "ok" THEN [kind |-> "found", value |-> p.value]
              ELSE IF p.kind = "ValueError" THEN ScanExif(exif, k + 1)
              ELSE [kind |-> "raise"]
         ELSE ScanExif(exif, k + 1)

\* lines 16-32: the metadata attempt inside try/except Exception
ExifAttempt(e) ==
    IF ~CanOpen(e) THEN [kind |-> "none"]
    ELSE IF e.img.exif.kind # "map" THEN [kind |-> "none"]
    ELSE IF Len(e.img.exif.items) = 0 THEN [kind |-> "none"]
    ELSE LET s == ScanExif(e.img.exif.items, 1) IN
         IF s.kind = "found" THEN s ELSE [kind |-> "none"]

\* line 35: the fallback; stat() raises for a path that does not exist
MtimeFallback(e) ==
    IF CanStat(e)
    THEN [ok |-> TRUE, ts |-> FromTimestamp(e.mtime), source |-> "mtime"]
    ELSE [ok |-> FALSE]

\* the resolver without the try/except of lines 16 and 31-32
get_image_creation_time_unguarded(e) ==
    IF ~CanOpen(e) \/ e.img.exif.kind = "raise" THEN [ok |-> FALSE]
    ELSE IF e.img.exif.kind = "none" THEN MtimeFallback(e)
    ELSE LET s == ScanExif(e.img.exif.items, 1) IN
         IF s.kind = "found" THEN [ok |-> TRUE, ts |-> s.value, source |-> "EXIF"]
         ELSE IF s.kind = "raise" THEN [ok |-> FALSE]
         ELSE MtimeFallback(e)

get_image_creation_time(e) ==
    LET a == ExifAttempt(e) IN
    IF a.kind = "found"
    THEN [ok |-> TRUE, ts |-> a.value, source |-> "EXIF"]
    ELSE MtimeFallback(e)

-----------------------------------------------------------------------------
(* get_image_files                                                         *)

\* str.lower() on the name parts of the model
Lower(p) ==
    IF p = "JPG" THEN "jpg"
    ELSE IF p = "PNG" THEN "png"
    ELSE IF p = "Jpeg" THEN "jpeg"
    ELSE p

\* Path.suffix: a name is a sequence of parts, "." being a part of its own;
\* the suffix is the last "." and what follows it, unless the "." starts or
\* ends the name
Suffix(name) ==
    IF Len(name) >= 3 /\ name[Len(name) - 1] = "."
    THEN <<".", name[Len(name)]>>
    ELSE <<>>

SuffixLower(name) == [k \in DOMAIN Suffix(name) |-> Lower(Suffix(name)[k])]

supported_formats ==
    {<<".", "png">>, <<".", "jpg">>, <<".", "jpeg">>, <<".", "tiff">>, <<".", "bmp">>}

\* line 43: the filter applied to one directory entry
IsCandidate(e) == SuffixLower(e.name) \in supported_formats

\* lines 42-44: the indices of the directory entries kept, in iterdir order
RECURSIVE FilterFrom(_, _)
FilterFrom(dir, k) ==
    IF k > Len(dir) THEN <<>>
    ELSE IF IsCandidate(dir[k]) THEN <<k>> \o FilterFrom(dir, k + 1)
    ELSE FilterFrom(dir, k + 1)

\* an insertion to the left of the elements with an equal key: a sort that
\* is not stable
InsertLeft(S, p, ks) ==
    LET later == {q \in 1..Len(S) : DtLeq(ks[p], ks[S[q]])} IN
    IF later = {} THEN Append(S, p)
    ELSE LET q == CHOOSE x \in later : \A y \in later : x <= y IN
         SubSeq(S, 1, q - 1) \o <<p>> \o SubSeq(S, q, Len(S))

\* sorted(): binary insertion of position p into the sorted run S, to the
\* right of every element whose key is not greater (list.sort on short lists)
InsertRight(S, p, ks) ==
    LET later == {q \in 1..Len(S) : DtLess(ks[p], ks[S[q]])} IN
    IF later = {} THEN Append(S, p)
    ELSE LET q == CHOOSE x \in later : \A y \in later : x <= y IN
         SubSeq(S, 1, q - 1) \o <<p>> \o SubSeq(S, q, Len(S))

RECURSIVE SortPositions(_, _)
SortPositions(ks, n) ==
    IF n = 0 THEN <<>>
    ELSE InsertRight(SortPositions(ks, n - 1), n, ks)

\* line 47: sorted(image_files, key=...) given the keys of the list positions
SortedByKey(items, ks) ==
    LET S == SortPositions(ks, Len(items)) IN
    [k \in 1..Len(items) |-> items[S[k]]]

-----------------------------------------------------------------------------
(* What is written and printed                                             *)

NoArg == << >>
Orig == [piece |-> "orig", arg |-> NoArg]

\* line 69: "\n--- Text from <name> (<source> time: <formatted>) ---\n"
HeaderPiece(name, source, formatted) ==
    [piece |-> "header", arg |-> <<name, source, formatted>>]
\* line 70: the recognised text
TextPiece(text) == [piece |-> "text", arg |-> <<text>>]
\* line 71
NewlinePiece == [piece |-> "nl", arg |-> NoArg]

\* pytesseract.image_to_string(img): the text recognised in the image
OcrText(e) == <<"text of", e.name[1]>>

\* line 73, line 76, line 54
ProcessedLine(name, source) == <<"Processed", name, source>>
ErrorLine(name) == <<"Error processing", name>>
NoImagesLine == <<"No supported image files found">>

NoCur == [time_source |-> "", formatted_time |-> <<>>, text |-> <<>>]
NoRes == [ok |-> FALSE]

IsPrefix(s, t) == Len(s) <= Len(t) /\ SubSeq(t, 1, Len(s)) = s

-----------------------------------------------------------------------------
(* The script: __main__ and process_images                                 *)

LoopPcs == {"resolve", "ocr", "open", "header", "text", "newline", "processed"}

Entry == fs[image_files[idx]]

\* the start of the script, were the output file opened for writing instead
\* of touched
Main_Truncating ==
    /\ pc = "main"
    /\ IF outDirOK
       THEN /\ outExists' = TRUE
            /\ out' = <<>>
            /\ pc' = "enumerate"
       ELSE /\ pc' = "aborted"
            /\ UNCHANGED <<outExists, out>>
    /\ pre' = out
    /\ UNCHANGED <<fs, dirOK, outDirOK, image_files, keys, idx, cur, log, run,
                   hist, trace, keyed, envSteps, faults, res>>

\* lines 82-85, 88: mkdir(parents=True, exist_ok=True), touch(exist_ok=True)
Main ==
    /\ pc = "main"
    /\ IF outDirOK
       THEN /\ outExists' = TRUE
            /\ out' = out
            /\ pc' = "enumerate"
       ELSE /\ pc' = "aborted"
            /\ UNCHANGED <<outExists, out>>
    /\ pre' = out
    /\ UNCHANGED <<fs, dirOK, outDirOK, image_files, keys, idx, cur, log, run,
                   hist, trace, keyed, envSteps, faults, res>>

\* lines 39-44: iterdir and the extension filter
Enumerate ==
    /\ pc = "enumerate"
    /\ IF dirOK
       THEN /\ image_files' = FilterFrom(fs, 1)
            /\ pc' = "keys"
       ELSE /\ pc' = "aborted"
            /\ UNCHANGED image_files
    /\ keys' = <<>>
    /\ UNCHANGED <<fs, dirOK, outDirOK, outExists, out, idx, cur, log, run, pre,
                   hist, trace, keyed, envSteps, faults, res>>

\* line 47: sorted() calls the key function once per element, in list order,
\* before it compares anything; an exception of the key function leaves
\* sorted(), get_image_files and process_images
KeyStep ==
    /\ pc = "keys"
    /\ Len(keys) < Len(image_files)
    /\ LET j == image_files[Len(keys) + 1]
           r == get_image_creation_time(fs[j]) IN
       /\ res' = r
       /\ IF r.ok
          THEN /\ keys' = Append(keys, r.ts)
               /\ keyed' = [x \in DOMAIN keyed \cup {j} |->
                               IF x = j THEN r ELSE keyed[x]]
               /\ pc' = pc
          ELSE /\ pc' = "aborted"
               /\ UNCHANGED <<keys, keyed>>
    /\ UNCHANGED <<fs, dirOK, outDirOK, outExists, out, image_files, idx, cur,
                   log, run, pre, hist, trace, envSteps, faults>>

\* line 47 and line 51: the sort itself, and the return to process_images
Sort ==
    /\ pc = "keys"
    /\ Len(keys) = Len(image_files)
    /\ image_files' = SortedByKey(image_files, keys)
    /\ keys' = <<>>
    /\ pc' = "check"
    /\ UNCHANGED <<fs, dirOK, outDirOK, outExists, out, idx, cur, log, run, pre,
                   hist, trace, keyed, envSteps, faults, res>>

\* the empty check without its report
Check_Silent ==
    /\ pc = "check"
    /\ IF image_files = <<>>
       THEN /\ log' = log
            /\ pc' = "done"
            /\ idx' = idx
       ELSE /\ pc' = "resolve"
            /\ idx' = 1
            /\ log' = log
    /\ UNCHANGED <<fs, dirOK, outDirOK, outExists, out, image_files, keys, cur,
                   run, pre, hist, trace, keyed, envSteps, faults, res>>

\* lines 53-57
Check ==
    /\ pc = "check"
    /\ IF image_files = <<>>
       THEN /\ log' = Append(log, NoImagesLine)
            /\ pc' = "done"
            /\ idx' = idx
       ELSE /\ pc' = "resolve"
            /\ idx' = 1
            /\ log' = log
    /\ UNCHANGED <<fs, dirOK, outDirOK, outExists, out, image_files, keys, cur,
                   run, pre, hist, trace, keyed, envSteps, faults, res>>

\* line 57: the for loop takes the next element, or ends and the function returns
NextEntry ==
    /\ cur' = NoCur
    /\ IF idx < Len(image_files)
       THEN idx' = idx + 1 /\ pc' = "resolve"
       ELSE idx' = idx /\ pc' = "done"

\* lines 75-76: the handler of the iteration's try, then the next iteration
Caught(step) ==
    /\ log' = Append(log, ErrorLine(Entry.name))
    /\ trace' = Append(trace, [i |-> image_files[idx], outcome |-> step])
    /\ NextEntry

\* lines 60-61: the resolver is called again on the path, and its result formatted
LoopResolve ==
    /\ pc = "resolve"
    /\ LET r == get_image_creation_time(Entry) IN
       /\ res' = r
       /\ IF r.ok
          THEN /\ cur' = [time_source |-> r.source,
                          formatted_time |-> Strftime(r.ts),
                          text |-> <<>>]
               /\ pc' = "ocr"
               /\ UNCHANGED <<idx, log, trace>>
          ELSE Caught("resolve")
    /\ UNCHANGED <<fs, dirOK, outDirOK, outExists, out, image_files, keys, run,
                   pre, hist, keyed, envSteps, faults>>

\* lines 64-65 outside any try: the exception leaves process_images
LoopOCR_NoCatch ==
    /\ pc = "ocr"
    /\ IF CanOpen(Entry) /\ Entry.ocr = "ok"
       THEN /\ cur' = [cur EXCEPT !.text = OcrText(Entry)]
            /\ pc' = "open"
       ELSE /\ cur' = cur
            /\ pc' = "aborted"
    /\ UNCHANGED <<fs, dirOK, outDirOK, outExists, out, image_files, keys, run,
                   pre, hist, keyed, envSteps, faults, res, idx, log, trace>>

\* lines 64-65: Image.open and pytesseract.image_to_string
LoopOCR ==
    /\ pc = "ocr"
    /\ IF CanOpen(Entry) /\ Entry.ocr = "ok"
       THEN /\ cur' = [cur EXCEPT !.text = OcrText(Entry)]
            /\ pc' = "open"
            /\ UNCHANGED <<idx, log, trace>>
       ELSE Caught("ocr")
    /\ UNCHANGED <<fs, dirOK, outDirOK, outExists, out, image_files, keys, run,
                   pre, hist, keyed, envSteps, faults, res>>

\* An I/O error on the output file: raised by the statement at hand, caught
\* by the iteration's handler
IOError(step) ==
    /\ faults < MaxFaults
    /\ faults' = faults + 1
    /\ out' = out
    /\ Caught(step)

\* line 68: open(output_file, 'a')
LoopOpen ==
    /\ pc = "open"
    /\ \/ /\ pc' = "header"
          /\ UNCHANGED <<out, idx, cur, log, trace, faults>>
       \/ IOError("open")
    /\ UNCHANGED <<fs, dirOK, outDirOK, outExists, image_files, keys, run, pre,
                   hist, keyed, envSteps, res>>

\* line 69: f.write(header).  What has been written is flushed when the with
\* statement closes the file, also when a later statement raises.
LoopWriteHeader ==
    /\ pc = "header"
    /\ \/ /\ out' = Append(out, HeaderPiece(Entry.name, cur.time_source,
                                           cur.formatted_time))
          /\ pc' = "text"
          /\ UNCHANGED <<idx, cur, log, trace, faults>>
       \/ IOError("header")
    /\ UNCHANGED <<fs, dirOK, outDirOK, outExists, image_files, keys, run, pre,
                   hist, keyed, envSteps, res>>

\* line 70: f.write(text)
LoopWriteText ==
    /\ pc = "text"
    /\ \/ /\ out' = Append(out, TextPiece(cur.text))
          /\ pc' = "newline"
          /\ UNCHANGED <<idx, cur, log, trace, faults>>
       \/ IOError("text")
    /\ UNCHANGED <<fs, dirOK, outDirOK, outExists, image_files, keys, run, pre,
                   hist, keyed, envSteps, res>>

\* line 71: f.write("\n"), and the file is closed
LoopWriteNewline ==
    /\ pc = "newline"
    /\ \/ /\ out' = Append(out, NewlinePiece)
          /\ pc' = "processed"
          /\ UNCHANGED <<idx, cur, log, trace, faults>>
       \/ IOError("newline")
    /\ UNCHANGED <<fs, dirOK, outDirOK, outExists, image_files, keys, run, pre,
                   hist, keyed, envSteps, res>>

\* line 73, then the next iteration
LoopProcessed ==
    /\ pc = "processed"
    /\ log' = Append(log, ProcessedLine(Entry.name, cur.time_source))
    /\ trace' = Append(trace, [i |-> image_files[idx], outcome |-> "ok"])
    /\ NextEntry
    /\ UNCHANGED <<fs, dirOK, outDirOK, outExists, out, image_files, keys, run,
                   pre, hist, keyed, envSteps, faults, res>>

-----------------------------------------------------------------------------
(* The environment: other programs changing the input directory while the  *)
(* script runs, after it has listed the directory                          *)

Running == pc \in {"keys", "check"} \cup LoopPcs

\* a file is written to: st_mtime, read at line 35, changes
Touch ==
    /\ Running
    /\ envSteps < MaxEnvSteps
    /\ \E j \in DOMAIN fs, t \in 0..MaxMTime :
          /\ fs[j].kind = "file"
          /\ fs[j].mtime # t
          /\ fs' = [fs EXCEPT ![j].mtime = t]
    /\ envSteps' = envSteps + 1
    /\ UNCHANGED <<dirOK, outDirOK, outExists, out, pc, image_files, keys, idx,
                   cur, log, run, pre, hist, trace, keyed, faults, res>>

\* a file is removed: Image.open (lines 17, 64) and stat (line 35) fail on it
Remove ==
    /\ Running
    /\ envSteps < MaxEnvSteps
    /\ \E j \in DOMAIN fs :
          /\ fs[j].kind = "file"
          /\ fs' = [fs EXCEPT ![j].kind = "missing"]
    /\ envSteps' = envSteps + 1
    /\ UNCHANGED <<dirOK, outDirOK, outExists, out, pc, image_files, keys, idx,
                   cur, log, run, pre, hist, trace, keyed, faults, res>>

\* the script is started a second time once its first run has ended normally
Rerun ==
    /\ pc = "done"
    /\ run = "first"
    /\ hist' = Append(hist, [pre |-> pre,
                             appended |-> SubSeq(out, Len(pre) + 1, Len(out)),
                             trace |-> trace])
    /\ run' = "second"
    /\ pc' = "main"
    /\ image_files' = <<>>
    /\ keys' = <<>>
    /\ idx' = 0
    /\ cur' = NoCur
    /\ log' = <<>>
    /\ trace' = <<>>
    /\ keyed' = <<>>
    /\ faults' = 0
    /\ res' = NoRes
    /\ UNCHANGED <<fs, dirOK, outDirOK, outExists, out, pre, envSteps>>

-----------------------------------------------------------------------------
(* Initial states                                                          *)

Str(toks) == [isStr |-> TRUE, toks |-> toks]
NotStr == [isStr |-> FALSE, toks |-> <<>>]

ExifDate(sep, month, sec) ==
    Str(<<Num(1970), Sep(sep), Num(month), Sep(sep), Num(1), Sep(" "),
          Num(0), Sep(":"), Num(0), Sep(":"), Num(sec)>>)

\* values of metadata fields: well-formed dates, a date with other
\* separators, a date with month 13, an empty string, a value that is no string
GoodValues == {ExifDate(":", 1, s) : s \in 0..MaxMTime}
BadValues == {ExifDate("-", 1, 0), ExifDate(":", 13, 0), Str(<<>>), NotStr}
Values == GoodValues \cup BadValues

TagIds == {271, 306, 36867}

ExifNone == [kind |-> "none", items |-> <<>>]      \* _getexif() returns None
ExifRaises == [kind |-> "raise", items |-> <<>>]   \* the format has no _getexif
ExifMap(items) == [kind |-> "map", items |-> items]

Item(tag, val) == [tag |-> tag, val |-> val]

\* metadata mappings of at most MaxTags fields, in every iteration order
\* (a mapping holds a tag id once)
ExifMaps ==
    UNION {
      {ExifMap([k \in 1..n |-> Item(x[k][1], x[k][2])]) :
          x \in {y \in [1..n -> TagIds \X Values] :
                    \A a, b \in 1..n : a # b => y[a][1] # y[b][1]}}
      : n \in 0..MaxTags}

Image(decodable, exif) == [decodable |-> decodable, exif |-> exif]
NoImage == Image(FALSE, ExifNone)

Images ==
    {NoImage} \cup {Image(TRUE, x) : x \in {ExifNone, ExifRaises} \cup ExifMaps}

File(name, kind, img, ocr, mtime) ==
    [name |-> name, kind |-> kind, img |-> img, ocr |-> ocr, mtime |-> mtime]

Stem(j) == IF j = 1 THEN "a" ELSE IF j = 2 THEN "b" ELSE IF j = 3 THEN "c" ELSE "d"

\* what one entry of the input directory can be, but for its name and mtime
PlainImage == [ext |-> <<".", "png">>, kind |-> "file",
               img |-> Image(TRUE, ExifRaises), ocr |-> "ok"]
ExifImage == [ext |-> <<".", "JPG">>, kind |-> "file",
              img |-> Image(TRUE, ExifMap(<<Item(36867, ExifDate(":", 1, 0))>>)),
              ocr |-> "ok"]
CorruptImage == [ext |-> <<".", "png">>, kind |-> "file", img |-> NoImage, ocr |-> "fail"]
UnreadableImage == [ext |-> <<".", "Jpeg">>, kind |-> "file",
                    img |-> Image(TRUE, ExifNone), ocr |-> "fail"]
TextFile == [ext |-> <<".", "txt">>, kind |-> "file", img |-> NoImage, ocr |-> "fail"]
SubDir == [ext |-> <<>>, kind |-> "dir", img |-> NoImage, ocr |-> "fail"]
SubDirPng == [ext |-> <<".", "png">>, kind |-> "dir", img |-> NoImage, ocr |-> "fail"]
DanglingLink == [ext |-> <<".", "bmp">>, kind |-> "missing", img |-> NoImage, ocr |-> "fail"]

Profiles == {PlainImage, ExifImage, CorruptImage, UnreadableImage, TextFile,
             SubDir, SubDirPng, DanglingLink}

\* the profiles whose modification time the script reads
ReadsMtime(p) == p \in {PlainImage, CorruptImage, UnreadableImage, SubDirPng}

EntryAt(j, p, t) == File(<<Stem(j)>> \o p.ext, p.kind, p.img, p.ocr, t)

\* the modification times an entry of profile p can have
MTimesOf(p) == IF ReadsMtime(p) THEN 0..MaxMTime ELSE {0}

ListingsOf(profiles) ==
    UNION {
      UNION {
        {[j \in 1..n |-> EntryAt(j, ps[j], ts[j])] :
            ts \in {x \in [1..n -> 0..MaxMTime] :
                       \A j \in 1..n : x[j] \in MTimesOf(ps[j])}}
        : ps \in [1..n -> profiles]}
      : n \in 0..MaxFiles}

InitRest ==
    /\ pc = "main"
    /\ image_files = <<>>
    /\ keys = <<>>
    /\ idx = 0
    /\ cur = NoCur
    /\ log = <<>>
    /\ run = "first"
    /\ pre = out
    /\ hist = <<>>
    /\ trace = <<>>
    /\ keyed = <<>>
    /\ envSteps = 0
    /\ faults = 0
    /\ res = NoRes

InitOutput ==
    \E o \in {<<FALSE, <<>>>>, <<TRUE, <<>>>>, <<TRUE, <<Orig>>>>} :
        outExists = o[1] /\ out = o[2]

\* one run of the script over any listing, the directories usable or not
Init ==
    /\ fs \in ListingsOf(Profiles)
    /\ \E d \in {<<TRUE, TRUE>>, <<FALSE, TRUE>>, <<TRUE, FALSE>>} :
          dirOK = d[1] /\ outDirOK = d[2]
    /\ InitOutput
    /\ InitRest

Step ==
    \/ Main \/ Enumerate \/ KeyStep \/ Sort \/ Check
    \/ LoopResolve \/ LoopOCR \/ LoopOpen \/ LoopWriteHeader \/ LoopWriteText
    \/ LoopWriteNewline \/ LoopProcessed

Next == Step

Spec == Init /\ [][Next]_vars

\* one run while other programs change the files of the directory
InitEnv ==
    /\ fs \in ListingsOf({PlainImage, CorruptImage})
    /\ dirOK = TRUE
    /\ outDirOK = TRUE
    /\ outExists = TRUE
    /\ out = <<Orig>>
    /\ InitRest

NextEnv == Step \/ Touch \/ Remove

SpecEnv == InitEnv /\ [][NextEnv]_vars

\* two runs in a row over a directory that nothing else changes
InitTwoRuns ==
    /\ fs \in ListingsOf({PlainImage, CorruptImage, TextFile})
    /\ dirOK = TRUE
    /\ outDirOK = TRUE
    /\ InitOutput
    /\ InitRest

NextTwoRuns == Step \/ Rerun

SpecTwoRuns == InitTwoRuns /\ [][NextTwoRuns]_vars

\* one call of get_image_creation_time on any file
InitResolve ==
    /\ \E k \in {"file", "dir", "missing"}, t \in 0..MaxMTime :
          \E im \in (IF k = "file" THEN Images ELSE {NoImage}) :
              fs = <<File(<<"a", ".", "jpg">>, k, im, "ok", t)>>
    /\ dirOK = TRUE
    /\ outDirOK = TRUE
    /\ outExists = TRUE
    /\ out = <<>>
    /\ InitRest

\* lines 11-35, called on the file
ResolveCall ==
    /\ pc = "main"
    /\ res' = get_image_creation_time(fs[1])
    /\ pc' = "returned"
    /\ UNCHANGED <<fs, dirOK, outDirOK, outExists, out, image_files, keys, idx,
                   cur, log, run, pre, hist, trace, keyed, envSteps, faults>>

NextResolve == ResolveCall

SpecResolve == InitResolve /\ [][NextResolve]_vars

-----------------------------------------------------------------------------
(* Properties                                                              *)

\* what the current run has appended to the output file
Appended == SubSeq(out, Len(pre) + 1, Len(out))

\* the entries attempted so far by the loop, in the order of the attempts
Attempted == [k \in DOMAIN trace |-> trace[k].i]

Succeeded(t) == t.outcome = "ok"
IsHeader(x) == x.piece = "header"

\* the complete block of directory entry j: header line, text, newline
IsBlockOf(b, j) ==
    /\ Len(b) = 3
    /\ b[1].piece = "header"
    /\ b[1].arg[1] = fs[j].name
    /\ b[2] = TextPiece(OcrText(fs[j]))
    /\ b[3] = NewlinePiece

\* the instant a formatted header time stands for
TimeOf(f) == <<f[1].v, f[3].v, f[5].v, f[7].v, f[9].v, f[11].v>>

Sorted == pc \in {"check", "done"} \cup LoopPcs

\* C1: a failure of one entry in the loop never aborts the batch: the
\* entries of the sorted list are attempted once each, in sorted order,
\* whatever the earlier ones did; every attempt printed exactly one line, an
\* "Error processing <name>" line for a failed entry; and once the loop has
\* started the run cannot abort, it can always take its next step until done.
C1_FailureIsolated ==
    /\ pc \in LoopPcs => Attempted = SubSeq(image_files, 1, idx - 1)
    /\ (pc = "done" /\ image_files # <<>>) => Attempted = image_files
    /\ (Sorted /\ image_files # <<>>) =>
          /\ Len(log) = Len(trace)
          /\ \A k \in DOMAIN trace :
                IF trace[k].outcome = "ok"
                THEN log[k][1] = "Processed" /\ log[k][2] = fs[trace[k].i].name
                ELSE log[k] = ErrorLine(fs[trace[k].i].name)
    /\ pc = "aborted" => (idx = 0 /\ trace = <<>>)
    /\ pc \in LoopPcs => ENABLED Step

\* a run in which the first entry failed in decode/recognition and the
\* second was processed all the same
C1_Witness ==
    /\ pc = "done"
    /\ Len(trace) = 2
    /\ trace[1].outcome = "ocr"
    /\ trace[2].outcome = "ok"
    /\ log[1] = ErrorLine(fs[trace[1].i].name)

\* C2: after a run, what was appended is exactly one complete block per
\* successfully processed entry, in order, and nothing for a failed entry,
\* also when the failure is an I/O error in the middle of the append.
C2_OnlyCompleteBlocks ==
    pc = "done" =>
        LET oks == SelectSeq(trace, Succeeded) IN
        /\ Len(Appended) = 3 * Len(oks)
        /\ \A k \in DOMAIN oks :
              IsBlockOf(SubSeq(Appended, 3 * k - 2, 3 * k), oks[k].i)

\* C3: the processing order is the stable ascending sort by the timestamp
\* resolved for the sort: of two candidates the one with the earlier
\* timestamp comes first, and of two with equal timestamps the one that came
\* first in the enumeration; entries are attempted and their blocks appear in
\* that order.
C3_StableAscendingOrder ==
    Sorted =>
        /\ \A a, b \in DOMAIN image_files :
              a < b =>
                 LET ka == keyed[image_files[a]].ts
                     kb == keyed[image_files[b]].ts IN
                 /\ DtLeq(ka, kb)
                 /\ ka = kb => image_files[a] < image_files[b]
        /\ {image_files[k] : k \in DOMAIN image_files}
              = {j \in DOMAIN fs : IsCandidate(fs[j])}
        /\ IsPrefix(Attempted, image_files)
        /\ pc = "done" =>
              LET hs == SelectSeq(Appended, IsHeader)
                  ws == SelectSeq(trace, LAMBDA t : t.outcome \in {"ok", "text", "newline"}) IN
              /\ Len(hs) = Len(ws)
              /\ \A k \in DOMAIN hs : hs[k].arg[1] = fs[ws[k].i].name

\* two candidates with equal timestamps, both processed, in enumeration order
C3_Witness ==
    /\ pc = "done"
    /\ image_files = <<1, 2>>
    /\ keyed[1].ts = keyed[2].ts
    /\ trace[1].outcome = "ok"
    /\ trace[2].outcome = "ok"
    /\ Len(Appended) = 6

\* C4: for an image whose metadata holds a parsable DateTimeOriginal field
\* the resolver returns exactly that instant with provenance 'EXIF',
\* whatever other fields the mapping holds and in whatever order it yields them.
C4_CaptureTimePreferred ==
    (pc = "returned" /\ CanOpen(fs[1]) /\ fs[1].img.exif.kind = "map") =>
        \A k \in DOMAIN fs[1].img.exif.items :
            LET it == fs[1].img.exif.items[k] IN
            (TAGS(it.tag) = "DateTimeOriginal" /\ Strptime(it.val).kind = "ok") =>
                res = [ok |-> TRUE, ts |-> Strptime(it.val).value, source |-> "EXIF"]

\* no field of the image's metadata is a recognised date tag with a parsable
\* value: the image cannot be decoded, has no metadata or none that can be
\* read, an empty mapping, no recognised tag, or unparsable values only
NoParsableDate(e) ==
    \/ ~CanOpen(e)
    \/ e.img.exif.kind # "map"
    \/ \A k \in DOMAIN e.img.exif.items :
          \/ TAGS(e.img.exif.items[k].tag) \notin {"DateTimeOriginal", "DateTime"}
          \/ Strptime(e.img.exif.items[k].val).kind # "ok"

\* C5: for an existing file from which no metadata instant is obtained the
\* resolver raises nothing and returns the file's modification instant with
\* provenance 'mtime', the same result in every sub-case of the fallback.
C5_FallbackToMtime ==
    (pc = "returned" /\ CanStat(fs[1]) /\ NoParsableDate(fs[1])) =>
        res = [ok |-> TRUE, ts |-> FromTimestamp(fs[1].mtime), source |-> "mtime"]

\* a decodable image whose DateTimeOriginal does not parse, resolved by mtime
C5_Witness ==
    /\ pc = "returned"
    /\ CanOpen(fs[1])
    /\ fs[1].img.exif.kind = "map"
    /\ Len(fs[1].img.exif.items) = 1
    /\ fs[1].img.exif.items[1].tag = 36867
    /\ Strptime(fs[1].img.exif.items[1].val).kind = "ValueError"
    /\ fs[1].mtime = 1
    /\ res.ok /\ res.source = "mtime" /\ res.ts = FromTimestamp(1)

\* C6: the output file is append-only: what it held when a run started, and
\* what earlier runs left, is a prefix of its content at every point; and
\* after two runs in a row under the same conditions (the directory
\* unchanged, every entry faring in the second run as in the first) it holds
\* the original content followed by two copies of the first run's output.
C6_AppendOnlyAcrossRuns ==
    /\ IsPrefix(pre, out)
    /\ \A r \in DOMAIN hist : IsPrefix(hist[r].pre \o hist[r].appended, out)
    /\ (run = "second" /\ pc = "done" /\ trace = hist[1].trace) =>
          out = hist[1].pre \o hist[1].appended \o hist[1].appended

\* a second run over a non-empty file, finished, both runs having appended
\* the same two blocks
C6_Witness ==
    /\ run = "second"
    /\ pc = "done"
    /\ hist[1].pre = <<Orig>>
    /\ Len(hist[1].appended) = 6
    /\ trace = hist[1].trace
    /\ Len(out) = 13

\* C7: only failing to enumerate the input directory or to create the
\* output location aborts the run; no failure local to one candidate does.
C7_OnlyStartupFailuresAbort ==
    pc = "aborted" => (~dirOK \/ ~outDirOK)

\* C8: the candidates are exactly the regular files whose extension is in
\* the allow-list, case-insensitively; any other file and any subdirectory is
\* no candidate and gets no line on the console.
C8_CandidatesAreRegularFiles ==
    pc \notin {"main", "enumerate", "aborted"} =>
        /\ {image_files[k] : k \in DOMAIN image_files}
              = {j \in DOMAIN fs : fs[j].kind = "file" /\ IsCandidate(fs[j])}
        /\ \A k \in DOMAIN log, j \in DOMAIN fs :
              (Len(log[k]) >= 2 /\ log[k][2] = fs[j].name) =>
                  (fs[j].kind = "file" /\ IsCandidate(fs[j]))

\* no entry of the directory has an extension of the allow-list
NoMatch == \A j \in DOMAIN fs : SuffixLower(fs[j].name) \notin supported_formats

\* C9: when nothing in the input directory matches the allow-list (and the
\* directories are usable) the run does not abort, never enters the loop,
\* appends nothing, and ends having printed the single 'No supported image
\* files found' line, the output file existing with the content it had.
C9_EmptyInputLeavesOutput ==
    (NoMatch /\ dirOK /\ outDirOK) =>
        /\ pc \notin {"aborted"} \cup LoopPcs
        /\ out = pre
        /\ pc = "done" => (log = <<NoImagesLine>> /\ outExists)

\* a finished run over a directory holding only a text file and a plain
\* subdirectory, the output file left as it was
C9_Witness ==
    /\ pc = "done"
    /\ Len(fs) = 2
    /\ NoMatch
    /\ log = <<NoImagesLine>>
    /\ out = <<Orig>>
    /\ outExists

\* C10: the timestamp and provenance in an entry's header are the values
\* used as its sort key (the resolver being called once per candidate), so
\* the header timestamps of the appended blocks never decrease.
C10_HeadersCarrySortKeys ==
    LET hs == SelectSeq(Appended, IsHeader) IN
    /\ \A k \in DOMAIN hs :
          \A j \in DOMAIN fs :
              (j \in DOMAIN keyed /\ fs[j].name = hs[k].arg[1]) =>
                  /\ hs[k].arg[2] = keyed[j].source
                  /\ hs[k].arg[3] = Strftime(keyed[j].ts)
    /\ \A a, b \in DOMAIN hs :
          a < b => DtLeq(TimeOf(hs[a].arg[3]), TimeOf(hs[b].arg[3]))

====
